---- MODULE Spec2Model ----
(***************************************************************************)
(* The ping protocol handler of tentacle (ping/src/lib.rs): PingHandler    *)
(* keeps one PingStatus per connected session, challenges idle sessions on *)
(* the send-ping timer, matches Pong nonces, reports timeouts on the       *)
(* check-timeout timer and pushes events into a non-blocking sink.         *)
(*                                                                         *)
(* A SystemTime is a pair <<w, t>>: w * 2^32 seconds plus t ticks after    *)
(* UNIX_EPOCH (TicksPerSec ticks to the second, t far below 2^32 seconds,  *)
(* t < 0 only with w = 0: a time before the epoch), so that the cast of    *)
(* the seconds to u32 is the second component.  A Duration is the          *)
(* componentwise difference of two such pairs.  Both are ordered           *)
(* lexicographically.  SystemTime::now() is the wall clock: every read is  *)
(* an arbitrary value of Times, so the clock may stand still, jump forward *)
(* or run backwards between two reads.                                     *)
(* Option<T> is modelled as a sequence: None == <<>>, Some(x) == <<x>>.    *)
(***************************************************************************)
EXTENDS Integers, Sequences, FiniteSets, TLC

\* ---------------------------------------------------------------- bounds
MaxSessions == 2
TicksPerSec == 2
MaxTime == 2
MaxNonce == 1
SinkCap == 1
TimeoutTicks == 1
MaxPeerId == 2
MaxWrap == 1

\* ------------------------------------------------------------- constants
SEND_PING_TOKEN == 0
CHECK_TIMEOUT_TOKEN == 1

\* test_peer_id: the range of the dials of the failing run, the error count
\* above which the handler reports, the capacity of its channel, and the
\* counts the failing and the succeeding run expect to receive.
DIAL_RANGE_START == 1
DIAL_RANGE_END == 11
RECV_FAIL == 9
RECV_SUCCEED == 0
ERROR_COUNT_LIMIT == 8
CHANNEL_BOUND == 2

UNIX_EPOCH == <<0, 0>>

None == <<>>
Some(x) == <<x>>
IsSome(o) == o # <<>>
Unwrap(o) == o[1]

Sessions == 1 .. MaxSessions

\* A session id stands for one connection of one remote peer: whenever the
\* id is seen again the remote key, if the handshake gave one, is the same.
PeerOf(s) == s

RemotePubkeys(s) == { None, Some(PeerOf(s)) }

\* Clock values: one tick before the epoch, the epoch, and the ticks after.
Times == { <<0, t>> : t \in (0 - 1) .. MaxTime }

\* Clock values, and the same MaxWrap times 2^32 seconds later.
WideTimes == Times \cup { <<MaxWrap, t>> : t \in 0 .. MaxTime }

Nonces == 0 .. MaxNonce

\* Any token the host may hand to notify(): the two registered ones and one
\* that was never registered.
Tokens == { SEND_PING_TOKEN, CHECK_TIMEOUT_TOKEN, CHECK_TIMEOUT_TOKEN + 1 }

Range(f) == { f[i] : i \in DOMAIN f }

\* The orders in which a hash map with the keys S may be iterated.
Orders(S) ==
    { o \in [ 1 .. Cardinality(S) -> S ] :
        \A i, j \in 1 .. Cardinality(S) : o[i] = o[j] => i = j }

\* ------------------------------------------------------- time arithmetic
TimeGE(a, b) == a[1] > b[1] \/ (a[1] = b[1] /\ a[2] >= b[2])

\* SystemTime::duration_since: Ok(a - b) when a is not before b, else Err.
duration_since(a, b) ==
    IF TimeGE(a, b) THEN Some(<<a[1] - b[1], a[2] - b[2]>>) ELSE None

ZeroDuration == <<0, 0>>

\* Duration::as_secs as a pair <<multiples of 2^32, remainder>>.
as_secs(dur) == <<dur[1], dur[2] \div TicksPerSec>>

as_u32_saturating(secs) == IF secs[1] > 0 THEN 2147483647 ELSE secs[2]

\* The cast `as u32` of a u64 keeps the low 32 bits.
as_u32(secs) == secs[2]

\* The configured timeout (PingHandler::timeout).
timeout == <<0, TimeoutTicks>>

\* ------------------------------------------------------------ wire codec
\* A payload is <<tag, nonce>>; the tags are those of the PingPayload union.
TagNONE == 0
TagPing == 1
TagPong == 2

Payloads == { <<tag, n>> : tag \in { TagNONE, TagPing, TagPong }, n \in Nonces }

payload_type(data) ==
    IF data[1] = TagPing THEN "Ping"
    ELSE IF data[1] = TagPong THEN "Pong"
    ELSE "NONE"

payload_nonce(data) == data[2]

build_ping(n) == <<TagPing, n>>

build_pong(n) == <<TagPong, n>>

\* ----------------------------------------------------------------- state
VARIABLES
    connected_session_ids,  \* FnvHashMap<SessionId, PingStatus>: session -> Option
    sessions,               \* host: session -> None (closed) | Some(remote_pubkey)
    sink_len,               \* events queued in the event sink
    sink_closed,            \* the receiving end of the sink was dropped
    panicked,               \* notify() panicked on an unknown token
    call,                   \* the hook the host is in, with its inputs, or Idle
    events,                 \* send_event() calls of that hook, in order
    host_calls,             \* calls that hook made on the ServiceContext
    outstanding,            \* per session lifetime: Pings broadcast - Pongs accepted
    test,                   \* test_peer_id(fail): the test thread
    service,                \* the dialing Service and the listener it dials
    shandle                 \* EmptySHandle and the channel behind its sender

vars ==
    << connected_session_ids, sessions, sink_len, sink_closed, panicked,
       call, events, host_calls, outstanding, test, service, shandle >>

ping_vars ==
    << connected_session_ids, sessions, sink_len, sink_closed, panicked,
       call, events, host_calls, outstanding >>

dial_vars == << test, service, shandle >>

PingStatusOf(processing, last_ping, peer_id) ==
    [ processing |-> processing, last_ping |-> last_ping, peer_id |-> peer_id ]

\* ------------------------------------------------------------ PingStatus
nonce(ps) ==
    LET since == duration_since(ps.last_ping, UNIX_EPOCH)
    IN  IF IsSome(since) THEN as_u32(as_secs(Unwrap(since))) ELSE 0

elapsed_signed(ps, now) ==
    << now[1] - ps.last_ping[1], now[2] - ps.last_ping[2] >>

elapsed(ps, now) ==
    LET since == duration_since(now, ps.last_ping)
    IN  IF IsSome(since) THEN Unwrap(since) ELSE ZeroDuration

\* ------------------------------------------------------------ event sink
EventOf(kind, session, peer_id, rtt) ==
    [ kind |-> kind, session |-> session, peer_id |-> peer_id, rtt |-> rtt,
      ok |-> FALSE ]

\* Sender::try_send succeeds when the sink is open and has room.
try_send(len) == ~sink_closed /\ len < SinkCap

\* send_event for each event of evs in turn; ok records what try_send said.
RECURSIVE send_event(_, _)
send_event(evs, len) ==
    IF evs = <<>>
    THEN <<>>
    ELSE LET ok == try_send(len)
         IN  << [ Head(evs) EXCEPT !.ok = ok ] >>
                 \o send_event(Tail(evs), IF ok THEN len + 1 ELSE len)

Delivered(evs) == Cardinality({ i \in DOMAIN evs : evs[i].ok })

\* ------------------------------------------------------------ host calls
HostCall(op, targets, data) ==
    [ op |-> op, targets |-> targets, data |-> data ]

\* now: the clock read by SystemTime::now() in the hook, reads: the clock
\* read by elapsed() for each session it was called for.
CallOf(hook, session, pubkey, data, token, now, reads) ==
    [ hook |-> hook, session |-> session, pubkey |-> pubkey, data |-> data,
      token |-> token, now |-> now, reads |-> reads ]

NoReads == [ s \in Sessions |-> None ]

\* The host is between two hooks.
Idle == CallOf("idle", 0, None, None, None, None, NoReads)

\* The host may invoke a hook: no hook is running and none has panicked.
Ready == call = Idle /\ ~panicked

\* The host invokes the hooks one at a time.  What every hook that returns
\* does to the state: recs is the registry it leaves, evs the events it
\* passed to send_event, hc its ServiceContext calls, out the challenge
\* balance.
Hook(c, recs, evs, hc, out) ==
    /\ Ready
    /\ call' = c
    /\ connected_session_ids' = recs
    /\ events' = send_event(evs, sink_len)
    /\ sink_len' = sink_len + Delivered(events')
    /\ host_calls' = hc
    /\ outstanding' = out
    /\ UNCHANGED << sink_closed, panicked >>
    /\ UNCHANGED dial_vars

\* ------------------------------------------------------------- connected
or_insert_with_overwrite(recs, s, ps) == [ recs EXCEPT ![s] = Some(ps) ]

or_insert_with(recs, s, ps) ==
    IF IsSome(recs[s]) THEN recs ELSE [ recs EXCEPT ![s] = Some(ps) ]

connected_none_silent(s) == <<>>

connected_none(s) == << HostCall("disconnect", <<s>>, None) >>

connected(s, pubkey) ==
    /\ Ready
    /\ sessions[s] = None \/ sessions[s] = Some(pubkey)
    /\ sessions' = [ sessions EXCEPT ![s] = Some(pubkey) ]
    /\ IF IsSome(pubkey)
       THEN IF IsSome(connected_session_ids[s])
            THEN Hook(CallOf("connected", s, pubkey, None, None, None, NoReads),
                      or_insert_with(connected_session_ids, s,
                                     PingStatusOf(FALSE, UNIX_EPOCH, Unwrap(pubkey))),
                      <<>>, <<>>, outstanding)
            ELSE \E now \in Times :
                    Hook(CallOf("connected", s, pubkey, None, None, Some(now),
                                NoReads),
                         or_insert_with(connected_session_ids, s,
                                        PingStatusOf(FALSE, now, Unwrap(pubkey))),
                         <<>>, <<>>, outstanding)
       ELSE Hook(CallOf("connected", s, pubkey, None, None, None, NoReads),
                 connected_session_ids, <<>>, connected_none(s), outstanding)

\* ---------------------------------------------------------- disconnected
remove_nothing(recs, s) == recs

remove(recs, s) == [ recs EXCEPT ![s] = None ]

disconnected(s) ==
    /\ Ready
    /\ IsSome(sessions[s])
    /\ sessions' = [ sessions EXCEPT ![s] = None ]
    /\ Hook(CallOf("disconnected", s, None, None, None, None, NoReads),
            remove(connected_session_ids, s), <<>>, <<>>,
            [ outstanding EXCEPT ![s] = 0 ])

\* -------------------------------------------------------------- received
pong_accepted_any_state(lookup, n) ==
    IsSome(lookup) /\ nonce(Unwrap(lookup)) = n

pong_accepted_any_nonce(lookup, n) ==
    IsSome(lookup) /\ Unwrap(lookup).processing

pong_accepted(lookup, n) ==
    IsSome(lookup) /\ Unwrap(lookup).processing /\ nonce(Unwrap(lookup)) = n

accept_if_sent(ps) ==
    IF try_send(sink_len) THEN [ ps EXCEPT !.processing = FALSE ] ELSE ps

accept_reset(ps) ==
    [ ps EXCEPT !.processing = FALSE, !.last_ping = UNIX_EPOCH ]

accept_noop(ps) == ps

accept(ps) == [ ps EXCEPT !.processing = FALSE ]

ping_reply_own(s, data) ==
    << HostCall("send_message", <<s>>,
                Some(build_pong(nonce(Unwrap(connected_session_ids[s]))))) >>

ping_reply(s, data) ==
    << HostCall("send_message", <<s>>, Some(build_pong(payload_nonce(data)))) >>

received_unknown_reply(s, data) ==
    IF payload_type(data) = "Ping"
    THEN << HostCall("send_message", <<s>>,
                     Some(build_pong(payload_nonce(data)))) >>
    ELSE <<>>

\* A message of a session without a record: nothing is handed to the host.
received_unknown(s, data) == <<>>

received(s, data) ==
    /\ Ready
    /\ IsSome(sessions[s])
    /\ UNCHANGED sessions
    /\ LET lookup == connected_session_ids[s]
           c(t) == CallOf("received", s, None, Some(data), None, t, NoReads)
       IN  IF ~IsSome(lookup)
           THEN Hook(c(None), connected_session_ids, <<>>,
                     received_unknown(s, data), outstanding)
           ELSE LET ps == Unwrap(lookup)
                    peer_id == ps.peer_id
                IN  CASE payload_type(data) = "Ping" ->
                           Hook(c(None), connected_session_ids,
                                << EventOf("Ping", s, peer_id, None) >>,
                                ping_reply(s, data), outstanding)
                      [] payload_type(data) = "Pong" ->
                           IF pong_accepted(lookup, payload_nonce(data))
                           THEN \E now \in Times :
                                   Hook(c(Some(now)),
                                        [ connected_session_ids EXCEPT
                                            ![s] = Some(accept(ps)) ],
                                        << EventOf("Pong", s, peer_id,
                                                   Some(elapsed(ps, now))) >>,
                                        <<>>,
                                        [ outstanding EXCEPT ![s] = @ - 1 ])
                           ELSE Hook(c(None), connected_session_ids,
                                     << EventOf("UnexpectedError", s, peer_id,
                                                None) >>,
                                     <<>>, outstanding)
                      [] OTHER ->
                           Hook(c(None), connected_session_ids,
                                << EventOf("UnexpectedError", s, peer_id,
                                           None) >>,
                                <<>>, outstanding)

\* ---------------------------------------------------------------- notify
\* The filter of the send-ping scan: records not being pinged are selected.
selected_all(ps) == TRUE

selected_inverted(ps) == ps.processing

selected(ps) == ~ps.processing

challenge_keep(ps, now) == [ ps EXCEPT !.processing = TRUE ]

challenge(ps, now) == [ ps EXCEPT !.processing = TRUE, !.last_ping = now ]

\* The sessions the send-ping scan of the map selects.
send_ping_peers(recs) ==
    { s \in Sessions : IsSome(recs[s]) /\ selected(Unwrap(recs[s])) }

notify_send_ping(now, hit) ==
    LET recs == connected_session_ids
        peers == [ i \in DOMAIN hit |->
                     << hit[i], nonce(challenge(Unwrap(recs[hit[i]]), now)) >> ]
        peer_ids == [ i \in DOMAIN peers |-> peers[i][1] ]
        after == [ s \in Sessions |->
                     IF IsSome(recs[s]) /\ selected(Unwrap(recs[s]))
                     THEN Some(challenge(Unwrap(recs[s]), now))
                     ELSE recs[s] ]
    IN  /\ UNCHANGED sessions
        /\ Hook(CallOf("notify", 0, None, None, Some(SEND_PING_TOKEN),
                       Some(now), NoReads),
                after, <<>>,
                IF peers # <<>>
                THEN << HostCall("filter_broadcast", peer_ids,
                                 Some(build_ping(peers[1][2]))) >>
                ELSE <<>>,
                [ s \in Sessions |->
                    IF \E i \in DOMAIN peer_ids : peer_ids[i] = s
                    THEN outstanding[s] + 1 ELSE outstanding[s] ])

timed_out_strict(ps, read) ==
    ps.processing /\ ~TimeGE(timeout, elapsed(ps, Unwrap(read)))

\* The filter of the check-timeout scan; read is the clock that elapsed()
\* reads for the record.
timed_out(ps, read) ==
    ps.processing /\ TimeGE(elapsed(ps, Unwrap(read)), timeout)

\* elapsed() is called for exactly the records with processing set.
ElapsedReads ==
    { r \in [ Sessions -> { Some(t) : t \in Times } \cup { None } ] :
        \A s \in Sessions :
            IsSome(r[s]) <=> ( /\ IsSome(connected_session_ids[s])
                               /\ Unwrap(connected_session_ids[s]).processing ) }

\* The sessions the check-timeout scan of the map selects.
check_timeout_peers(recs, reads) ==
    { s \in Sessions : IsSome(recs[s]) /\ timed_out(Unwrap(recs[s]), reads[s]) }

notify_check_timeout_reset(reads, hit) ==
    LET recs == connected_session_ids
        evs == [ i \in DOMAIN hit |->
                   EventOf("Timeout", hit[i], Unwrap(recs[hit[i]]).peer_id, None) ]
    IN  /\ UNCHANGED sessions
        /\ Hook(CallOf("notify", 0, None, None, Some(CHECK_TIMEOUT_TOKEN),
                       None, reads),
                [ s \in Sessions |->
                    IF s \in Range(hit)
                    THEN Some([ Unwrap(recs[s]) EXCEPT !.processing = FALSE ])
                    ELSE recs[s] ],
                evs, <<>>, outstanding)

notify_check_timeout_drop(reads, hit) ==
    LET recs == connected_session_ids
        evs == [ i \in DOMAIN hit |->
                   EventOf("Timeout", hit[i], Unwrap(recs[hit[i]]).peer_id, None) ]
    IN  /\ UNCHANGED sessions
        /\ Hook(CallOf("notify", 0, None, None, Some(CHECK_TIMEOUT_TOKEN),
                       None, reads),
                recs, evs,
                [ i \in DOMAIN hit |-> HostCall("disconnect", << hit[i] >>, None) ],
                outstanding)

notify_check_timeout(reads, hit) ==
    LET recs == connected_session_ids
        evs == [ i \in DOMAIN hit |->
                   EventOf("Timeout", hit[i], Unwrap(recs[hit[i]]).peer_id, None) ]
    IN  /\ UNCHANGED sessions
        /\ Hook(CallOf("notify", 0, None, None, Some(CHECK_TIMEOUT_TOKEN),
                       None, reads),
                recs, evs, <<>>, outstanding)

notify_unknown_ignored(token) ==
    /\ Ready
    /\ token # SEND_PING_TOKEN
    /\ token # CHECK_TIMEOUT_TOKEN
    /\ call' = CallOf("notify", 0, None, None, Some(token), None, NoReads)
    /\ events' = <<>>
    /\ host_calls' = <<>>
    /\ UNCHANGED << connected_session_ids, sessions, sink_len, sink_closed,
                    panicked, outstanding >>
    /\ UNCHANGED dial_vars

notify_unknown(token) ==
    /\ Ready
    /\ token # SEND_PING_TOKEN
    /\ token # CHECK_TIMEOUT_TOKEN
    /\ panicked' = TRUE
    /\ call' = CallOf("notify", 0, None, None, Some(token), None, NoReads)
    /\ events' = <<>>
    /\ host_calls' = <<>>
    /\ UNCHANGED << connected_session_ids, sessions, sink_len, sink_closed,
                    outstanding >>
    /\ UNCHANGED dial_vars

notify(token) ==
    /\ Ready
    /\ IF token = SEND_PING_TOKEN
       THEN \E now \in Times :
               \E hit \in Orders(send_ping_peers(connected_session_ids)) :
                   notify_send_ping(now, hit)
       ELSE IF token = CHECK_TIMEOUT_TOKEN
       THEN \E reads \in ElapsedReads :
               \E hit \in Orders(check_timeout_peers(connected_session_ids,
                                                      reads)) :
                   notify_check_timeout(reads, hit)
       ELSE notify_unknown(token)

\* ------------------------------------------------- the consumer of events
\* The consumer runs beside the host; a hook being one step, what it does
\* is seen between two hooks.  It takes one event out of the sink.
sink_recv ==
    /\ call = Idle
    /\ sink_len > 0
    /\ sink_len' = sink_len - 1
    /\ UNCHANGED << connected_session_ids, sessions, sink_closed, panicked,
                    call, events, host_calls, outstanding >>
    /\ UNCHANGED dial_vars

\* The consumer drops the receiving end.
sink_close ==
    /\ call = Idle
    /\ ~sink_closed
    /\ sink_closed' = TRUE
    /\ sink_len' = 0
    /\ UNCHANGED << connected_session_ids, sessions, panicked,
                    call, events, host_calls, outstanding >>
    /\ UNCHANGED dial_vars

\* --------------------------------------------------------------- the host
\* The hook returns; the host takes over what the hook handed to it.
hook_return ==
    /\ call # Idle
    /\ ~panicked
    /\ call' = Idle
    /\ events' = <<>>
    /\ host_calls' = <<>>
    /\ UNCHANGED << connected_session_ids, sessions, sink_len, sink_closed,
                    panicked, outstanding >>
    /\ UNCHANGED dial_vars

\* ------------------------------------------------ test_peer_id: dialing
PeerIds == 0 .. MaxPeerId

SessionOpen == [ kind |-> "SessionOpen", error |-> "" ]
DialerError(error) == [ kind |-> "DialerError", error |-> error ]

dial_result_any_peer_id(addr_peer_id, remote_peer_id) == SessionOpen

\* What the dialing service reports for a dial of an address whose peer-id
\* component is addr_peer_id when the remote proves remote_peer_id in the
\* handshake.
dial_result(addr_peer_id, remote_peer_id) ==
    IF addr_peer_id = remote_peer_id
    THEN SessionOpen
    ELSE DialerError("PeerIdNotMatch")

\* crossbeam_channel::bounded(CHANNEL_BOUND): try_send() fails on a full
\* channel and the handler drops the result.
channel_try_send(queue, v) ==
    IF Len(queue) < CHANNEL_BOUND THEN Append(queue, v) ELSE queue

\* failed: an assertion of the handler failed (the service thread panics).
create_shandle == [ error_count |-> 0, sender |-> <<>>, failed |-> FALSE ]

handle_error(h, error) ==
    LET error_count == h.error_count + 1
    IN  IF error.kind = "DialerError" /\ error.error = "PeerIdNotMatch"
        THEN [ h EXCEPT !.error_count = error_count,
                        !.sender = IF error_count > ERROR_COUNT_LIMIT
                                   THEN channel_try_send(@, error_count)
                                   ELSE @ ]
        ELSE [ h EXCEPT !.error_count = error_count, !.failed = TRUE ]

handle_event(h, event) ==
    IF event.kind = "SessionOpen"
    THEN [ h EXCEPT !.sender = channel_try_send(@, h.error_count) ]
    ELSE h

\* The number of dials of test_peer_id(fail).
dials(fail) == IF fail THEN DIAL_RANGE_END - DIAL_RANGE_START ELSE 1

\* key: the identity of the listening service; dialing: the dials under
\* way, per peer-id component of the address; reports: what the dialing
\* service has handed to its handler, in order.
create(key) ==
    [ key |-> key, dialing |-> [ id \in PeerIds |-> 0 ], reports |-> <<>> ]

test_peer_id(running, fail) ==
    [ running |-> running, fail |-> fail, dialed |-> 0, received |-> None ]

\* control.dial(addr): with fail, the address carries the peer id of a
\* freshly generated key, which is not the listener's; without, the
\* listener's own.
test_dial ==
    /\ test.running
    /\ test.dialed < dials(test.fail)
    /\ \E addr_peer_id \in IF test.fail THEN PeerIds \ { service.key }
                                        ELSE { service.key } :
          service' = [ service EXCEPT !.dialing[addr_peer_id] = @ + 1 ]
    /\ test' = [ test EXCEPT !.dialed = @ + 1 ]
    /\ UNCHANGED shandle
    /\ UNCHANGED ping_vars

\* service.next(): one dial comes to its end and the handler is told.
service_next ==
    /\ ~shandle.failed
    /\ \E addr_peer_id \in PeerIds :
          /\ service.dialing[addr_peer_id] > 0
          /\ LET result == dial_result(addr_peer_id, service.key)
             IN  /\ service' = [ service EXCEPT
                                   !.dialing[addr_peer_id] = @ - 1,
                                   !.reports = Append(@, result) ]
                 /\ shandle' = IF result.kind = "SessionOpen"
                               THEN handle_event(shandle, result)
                               ELSE handle_error(shandle, result)
    /\ UNCHANGED test
    /\ UNCHANGED ping_vars

\* error_receiver.recv() of the test thread, after its dials.
test_recv ==
    /\ test.running
    /\ test.dialed = dials(test.fail)
    /\ test.received = None
    /\ shandle.sender # <<>>
    /\ test' = [ test EXCEPT !.received = Some(Head(shandle.sender)) ]
    /\ shandle' = [ shandle EXCEPT !.sender = Tail(@) ]
    /\ UNCHANGED service
    /\ UNCHANGED ping_vars

\* --------------------------------------------------------- specification
PingInit ==
    /\ connected_session_ids = [ s \in Sessions |-> None ]
    /\ sessions = [ s \in Sessions |-> None ]
    /\ sink_len = 0
    /\ sink_closed = FALSE
    /\ panicked = FALSE
    /\ call = Idle
    /\ events = <<>>
    /\ host_calls = <<>>
    /\ outstanding = [ s \in Sessions |-> 0 ]

Init ==
    /\ PingInit
    /\ test = test_peer_id(FALSE, FALSE)
    /\ service = create(0)
    /\ shandle = create_shandle

\* The records of sessions that connected at any time of the wide clock.
NonceInit ==
    /\ \E last \in [ Sessions -> { None } \cup { Some(t) : t \in WideTimes } ] :
          /\ connected_session_ids =
                [ s \in Sessions |->
                    IF IsSome(last[s])
                    THEN Some(PingStatusOf(FALSE, Unwrap(last[s]), PeerOf(s)))
                    ELSE None ]
          /\ sessions =
                [ s \in Sessions |->
                    IF IsSome(last[s]) THEN Some(Some(PeerOf(s))) ELSE None ]
    /\ sink_len = 0
    /\ sink_closed = FALSE
    /\ panicked = FALSE
    /\ call = Idle
    /\ events = <<>>
    /\ host_calls = <<>>
    /\ outstanding = [ s \in Sessions |-> 0 ]
    /\ test = test_peer_id(FALSE, FALSE)
    /\ service = create(0)
    /\ shandle = create_shandle

\* The send-ping timer fires at any time of the wide clock.
wide_send_ping_tick ==
    \E now \in WideTimes :
        \E hit \in Orders(send_ping_peers(connected_session_ids)) :
            Ready /\ notify_send_ping(now, hit)

NonceNext ==
    \/ wide_send_ping_tick
    \/ \E s \in Sessions, n \in Nonces : received(s, build_pong(n))
    \/ hook_return

NonceSpec == NonceInit /\ [][NonceNext]_vars

DialInit ==
    /\ PingInit
    /\ \E fail \in BOOLEAN : test = test_peer_id(TRUE, fail)
    /\ \E key \in PeerIds : service = create(key)
    /\ shandle = create_shandle

DialNext ==
    \/ test_dial
    \/ service_next
    \/ test_recv

DialSpec == DialInit /\ [][DialNext]_vars

Next ==
    \/ \E s \in Sessions : \E p \in RemotePubkeys(s) : connected(s, p)
    \/ \E s \in Sessions : disconnected(s)
    \/ \E s \in Sessions, data \in Payloads : received(s, data)
    \/ \E token \in Tokens : notify(token)
    \/ hook_return
    \/ sink_recv
    \/ sink_close

Spec == Init /\ [][Next]_vars

\* ------------------------------------------------------------ properties
\* The step is the host entering hook h.
Enters(h) == call = Idle /\ call'.hook = h

EntersReceived(s, kind) ==
    /\ Enters("received")
    /\ call'.session = s
    /\ payload_type(Unwrap(call'.data)) = kind

EntersNotify(token) == Enters("notify") /\ call'.token = Some(token)

\* e is the event kind(peer_id[, rtt]) of session s, delivered or dropped.
IsEvent(e, kind, s, peer_id, rtt) ==
    [ e EXCEPT !.ok = FALSE ] = EventOf(kind, s, peer_id, rtt)

Awaiting(recs, s) == IsSome(recs[s]) /\ Unwrap(recs[s]).processing

IdleRecord(recs, s) == IsSome(recs[s]) /\ ~Unwrap(recs[s]).processing

\* C1: a Pong{n} of a registered session is accepted iff its record has
\* processing set and n is the nonce of its last_ping; then the record
\* becomes idle and Pong(peer, rtt) is emitted; otherwise
\* UnexpectedError(peer) is emitted and the record stays as it was.
C1_PongAcceptedIff ==
    [][ \A s \in Sessions :
          EntersReceived(s, "Pong") /\ IsSome(connected_session_ids[s]) =>
            LET ps == Unwrap(connected_session_ids[s])
                n == payload_nonce(Unwrap(call'.data))
            IN  /\ Len(events') = 1
                /\ IF ps.processing /\ n = nonce(ps)
                   THEN /\ connected_session_ids'[s] =
                             Some(PingStatusOf(FALSE, ps.last_ping, ps.peer_id))
                        /\ IsSome(call'.now)
                        /\ IsEvent(events'[1], "Pong", s, ps.peer_id,
                                   Some(elapsed(ps, Unwrap(call'.now))))
                   ELSE /\ connected_session_ids'[s] = connected_session_ids[s]
                        /\ IsEvent(events'[1], "UnexpectedError", s, ps.peer_id,
                                   None)
      ]_vars

C1_Witness ==
    /\ call.hook = "received"
    /\ payload_type(Unwrap(call.data)) = "Pong"
    /\ Len(events) = 1
    /\ events[1].kind = "Pong"
    /\ events[1].rtt = Some(timeout)
    /\ IdleRecord(connected_session_ids, call.session)

\* C2: a send-ping tick makes every idle record AwaitingPong with last_ping
\* the one timestamp of the tick, leaves every other record alone, and
\* broadcasts exactly one Ping to exactly the sessions that were idle, with
\* the nonce every one of their records now expects; nothing is sent when
\* no record was idle.
C2_SendPingTick ==
    [][ EntersNotify(SEND_PING_TOKEN) =>
          LET recs == connected_session_ids
              idle == { s \in Sessions : IdleRecord(recs, s) }
          IN  /\ IsSome(call'.now)
              /\ \A s \in Sessions :
                    connected_session_ids'[s] =
                        IF s \in idle
                        THEN Some(PingStatusOf(TRUE, Unwrap(call'.now),
                                               Unwrap(recs[s]).peer_id))
                        ELSE recs[s]
              /\ IF idle = {}
                 THEN host_calls' = <<>>
                 ELSE /\ Len(host_calls') = 1
                      /\ host_calls'[1].op = "filter_broadcast"
                      /\ Range(host_calls'[1].targets) = idle
                      /\ Len(host_calls'[1].targets) = Cardinality(idle)
                      /\ payload_type(Unwrap(host_calls'[1].data)) = "Ping"
                      /\ \A s \in idle :
                            payload_nonce(Unwrap(host_calls'[1].data)) =
                                nonce(Unwrap(connected_session_ids'[s]))
      ]_vars

C2_Witness ==
    /\ call.hook = "notify"
    /\ call.token = Some(SEND_PING_TOKEN)
    /\ Len(host_calls) = 1
    /\ host_calls[1].targets = << 2 >>
    /\ Awaiting(connected_session_ids, 1)
    /\ Unwrap(connected_session_ids[1]).last_ping # Unwrap(call.now)

\* C3: a check-timeout tick emits Timeout(peer) for a session iff its record
\* is AwaitingPong and the time elapsed since its last_ping is at least the
\* timeout; it emits nothing else, and nothing for an idle session.
C3_TimeoutIff ==
    [][ EntersNotify(CHECK_TIMEOUT_TOKEN) =>
          LET recs == connected_session_ids
              late == { s \in Sessions :
                          /\ Awaiting(recs, s)
                          /\ IsSome(call'.reads[s])
                          /\ TimeGE(elapsed(Unwrap(recs[s]),
                                            Unwrap(call'.reads[s])), timeout) }
          IN  /\ Len(events') = Cardinality(late)
              /\ \A s \in late :
                    \E i \in DOMAIN events' :
                        IsEvent(events'[i], "Timeout", s,
                                Unwrap(recs[s]).peer_id, None)
              /\ \A i \in DOMAIN events' : events'[i].session \in late
              /\ \A s \in Sessions : Awaiting(recs, s) <=> IsSome(call'.reads[s])
      ]_vars

C3_Witness ==
    /\ call.hook = "notify"
    /\ call.token = Some(CHECK_TIMEOUT_TOKEN)
    /\ Len(events) = 1
    /\ events[1].kind = "Timeout"
    /\ events[1].session = 1
    /\ elapsed(Unwrap(connected_session_ids[1]), Unwrap(call.reads[1])) = timeout
    /\ IdleRecord(connected_session_ids, 2)

\* C4: connected() for a session without remote_pubkey calls disconnect on
\* that session, creates no record and emits no event.
C4_NoIdentity ==
    [][ \A s \in Sessions :
          Enters("connected") /\ call'.session = s /\ call'.pubkey = None =>
            /\ host_calls' = << HostCall("disconnect", <<s>>, None) >>
            /\ connected_session_ids' = connected_session_ids
            /\ connected_session_ids'[s] = None
            /\ events' = <<>>
      ]_vars

C4_Witness ==
    /\ call.hook = "connected"
    /\ call.pubkey = None
    /\ Len(host_calls) = 1
    /\ host_calls[1].op = "disconnect"
    /\ connected_session_ids[call.session] = None

\* C5: the registry holds a record for a session iff the session is
\* connected (connect seen, disconnect not yet) with a peer identity, and
\* the record carries that identity.
C5_RecordIffConnected ==
    \A s \in Sessions :
        /\ IsSome(connected_session_ids[s]) <=>
              ( IsSome(sessions[s]) /\ IsSome(Unwrap(sessions[s])) )
        /\ IsSome(connected_session_ids[s]) =>
              Unwrap(connected_session_ids[s]).peer_id =
                  Unwrap(Unwrap(sessions[s]))

C5_Witness ==
    /\ call.hook = "disconnected"
    /\ connected_session_ids[call.session] = None
    /\ sessions[call.session] = None
    /\ \E t \in Sessions : Awaiting(connected_session_ids, t)

\* C6: at most one challenge is outstanding per session: within a session
\* lifetime the Ping broadcasts that include the session never exceed the
\* accepted Pongs by more than one, and a Ping broadcast never includes a
\* session whose record is AwaitingPong.
C6_OneOutstanding ==
    /\ [](\A s \in Sessions : outstanding[s] <= 1)
    /\ [][ EntersNotify(SEND_PING_TOKEN) =>
             \A i \in DOMAIN host_calls' :
                 \A s \in Range(host_calls'[i].targets) :
                     /\ ~Awaiting(connected_session_ids, s)
                     /\ outstanding[s] = 0
         ]_vars

C6_Witness ==
    /\ call.hook = "notify"
    /\ call.token = Some(SEND_PING_TOKEN)
    /\ \E s \in Sessions :
          /\ Awaiting(connected_session_ids, s)
          /\ outstanding[s] = 1
          /\ host_calls = <<>>

\* C7: a Ping{n} of a registered session, idle or not, is answered with
\* exactly one Pong{n} to that session, Ping(peer) is emitted, and no
\* record changes.
C7_PingEchoed ==
    [][ \A s \in Sessions :
          EntersReceived(s, "Ping") /\ IsSome(connected_session_ids[s]) =>
            LET n == payload_nonce(Unwrap(call'.data))
            IN  /\ host_calls' =
                      << HostCall("send_message", <<s>>, Some(<<TagPong, n>>)) >>
                /\ Len(events') = 1
                /\ IsEvent(events'[1], "Ping", s,
                           Unwrap(connected_session_ids[s]).peer_id, None)
                /\ connected_session_ids' = connected_session_ids
      ]_vars

C7_Witness ==
    /\ call.hook = "received"
    /\ payload_type(Unwrap(call.data)) = "Ping"
    /\ Awaiting(connected_session_ids, call.session)
    /\ nonce(Unwrap(connected_session_ids[call.session])) #
           payload_nonce(Unwrap(call.data))
    /\ Len(host_calls) = 1
    /\ host_calls[1].data = Some(<<TagPong, payload_nonce(Unwrap(call.data))>>)

\* C8: a check-timeout tick changes no record; so a session it reports stays
\* AwaitingPong with the same last_ping, and a check-timeout tick that reads
\* the clock no earlier reports it again.
C8_TimeoutKeepsRecord ==
    [][ EntersNotify(CHECK_TIMEOUT_TOKEN) =>
          /\ connected_session_ids' = connected_session_ids
          /\ \A i \in DOMAIN events' :
                LET s == events'[i].session
                    ps == Unwrap(connected_session_ids'[s])
                IN  /\ Awaiting(connected_session_ids', s)
                    /\ \A t \in Times :
                          TimeGE(t, Unwrap(call'.reads[s])) =>
                              TimeGE(elapsed(ps, t), timeout)
      ]_vars

C8_Witness ==
    /\ call.hook = "notify"
    /\ call.token = Some(CHECK_TIMEOUT_TOKEN)
    /\ Len(events) = MaxSessions
    /\ \A s \in Sessions : Awaiting(connected_session_ids, s)

\* C9: when the sink is full or closed the event of a hook is dropped, once,
\* the hook still returns, and its transition takes place: an accepted Pong
\* makes the record idle, a Ping is answered with a Pong.
C9_SinkFullOrClosed ==
    [][ \A s \in Sessions :
          /\ Enters("received")
          /\ call'.session = s
          /\ IsSome(connected_session_ids[s])
          /\ sink_closed \/ sink_len = SinkCap
          =>
            LET ps == Unwrap(connected_session_ids[s])
                data == Unwrap(call'.data)
            IN  /\ Len(events') = 1
                /\ ~events'[1].ok
                /\ sink_len' = sink_len
                /\ sink_closed' = sink_closed
                /\ ~panicked'
                /\ payload_type(data) = "Ping" =>
                      /\ Len(host_calls') = 1
                      /\ host_calls'[1].data =
                            Some(<<TagPong, payload_nonce(data)>>)
                /\ ( /\ payload_type(data) = "Pong"
                     /\ ps.processing
                     /\ payload_nonce(data) = nonce(ps) ) =>
                      /\ events'[1].kind = "Pong"
                      /\ IdleRecord(connected_session_ids', s)
      ]_vars

C9_Witness ==
    /\ call.hook = "received"
    /\ payload_type(Unwrap(call.data)) = "Pong"
    /\ Len(events) = 1
    /\ events[1].kind = "Pong"
    /\ ~events[1].ok
    /\ ~sink_closed
    /\ sink_len = SinkCap
    /\ IdleRecord(connected_session_ids, call.session)

\* C10: a message of a session without a record is dropped, whatever it is:
\* no event, no reply, no change of the registry.
C10_UnknownSessionDropped ==
    [][ \A s \in Sessions :
          /\ Enters("received")
          /\ call'.session = s
          /\ ~IsSome(connected_session_ids[s])
          =>
            /\ events' = <<>>
            /\ host_calls' = <<>>
            /\ connected_session_ids' = connected_session_ids
            /\ sink_len' = sink_len
      ]_vars

C10_Witness ==
    /\ call.hook = "received"
    /\ payload_type(Unwrap(call.data)) = "Ping"
    /\ connected_session_ids[call.session] = None
    /\ events = <<>>
    /\ host_calls = <<>>

\* C11: connected() with an identity for a session that already has a record
\* leaves the registry as it is (processing, last_ping and peer_id of the
\* record are kept), reads no clock, calls nothing and emits nothing.
C11_ConnectedIdempotent ==
    [][ \A s \in Sessions :
          /\ Enters("connected")
          /\ call'.session = s
          /\ IsSome(call'.pubkey)
          /\ IsSome(connected_session_ids[s])
          =>
            /\ connected_session_ids' = connected_session_ids
            /\ call'.now = None
            /\ events' = <<>>
            /\ host_calls' = <<>>
            /\ outstanding' = outstanding
      ]_vars

C11_Witness ==
    /\ call.hook = "connected"
    /\ IsSome(call.pubkey)
    /\ call.now = None
    /\ Awaiting(connected_session_ids, call.session)
    /\ Unwrap(connected_session_ids[call.session]).last_ping # UNIX_EPOCH

\* C12: a soft failure (undecodable message, Pong with a wrong nonce, Pong
\* while idle) leaves the record in the registry and the session connected;
\* disconnect is called only by connected() without identity; a
\* check-timeout tick removes no record and disconnects nothing.
C12_SoftFailuresKeepSession ==
    [][ /\ \A s \in Sessions :
              /\ Enters("received")
              /\ call'.session = s
              /\ events' # <<>>
              /\ events'[1].kind = "UnexpectedError"
              =>
                /\ IsSome(connected_session_ids'[s])
                /\ connected_session_ids' = connected_session_ids
                /\ sessions' = sessions
                /\ host_calls' = <<>>
        /\ \A i \in DOMAIN host_calls' :
              call = Idle /\ host_calls'[i].op = "disconnect" =>
                /\ call'.hook = "connected"
                /\ call'.pubkey = None
                /\ host_calls'[i].targets = << call'.session >>
        /\ EntersNotify(CHECK_TIMEOUT_TOKEN) =>
              /\ \A s \in Sessions :
                    IsSome(connected_session_ids[s]) =>
                        IsSome(connected_session_ids'[s])
              /\ sessions' = sessions
              /\ host_calls' = <<>>
      ]_vars

C12_Witness ==
    /\ call.hook = "received"
    /\ payload_type(Unwrap(call.data)) = "NONE"
    /\ Len(events) = 1
    /\ events[1].kind = "UnexpectedError"
    /\ Awaiting(connected_session_ids, call.session)
    /\ IsSome(sessions[call.session])
    /\ host_calls = <<>>

\* C13: notify() with a token that is neither the send-ping nor the
\* check-timeout token panics: no record changes, nothing is sent, nothing is
\* emitted; the two registered tokens do not panic, and after the panic the
\* handler does nothing more.
C13_UnknownTokenPanics ==
    [][ /\ Enters("notify") =>
              IF call'.token \in { Some(SEND_PING_TOKEN), Some(CHECK_TIMEOUT_TOKEN) }
              THEN ~panicked'
              ELSE /\ panicked'
                   /\ connected_session_ids' = connected_session_ids
                   /\ events' = <<>>
                   /\ host_calls' = <<>>
                   /\ sink_len' = sink_len
        /\ panicked =>
              /\ panicked'
              /\ connected_session_ids' = connected_session_ids
              /\ call' = call
              /\ events' = events
              /\ host_calls' = host_calls
      ]_vars

C13_Witness ==
    /\ panicked
    /\ call.hook = "notify"
    /\ call.token = Some(CHECK_TIMEOUT_TOKEN + 1)
    /\ \E s \in Sessions : Awaiting(connected_session_ids, s)
    /\ \E s \in Sessions : IdleRecord(connected_session_ids, s)

\* C14: the last_ping of a record changes only in a send-ping tick that
\* takes the record from idle to AwaitingPong; so the nonce an AwaitingPong
\* record expects stays the same as long as it is AwaitingPong.
C14_LastPingOnlyOnChallenge ==
    [][ \A s \in Sessions :
          IsSome(connected_session_ids[s]) /\ IsSome(connected_session_ids'[s]) =>
            LET ps == Unwrap(connected_session_ids[s])
                qs == Unwrap(connected_session_ids'[s])
            IN  /\ qs.last_ping # ps.last_ping =>
                      /\ EntersNotify(SEND_PING_TOKEN)
                      /\ ~ps.processing
                      /\ qs.processing
                      /\ qs.last_ping = Unwrap(call'.now)
                /\ ps.processing /\ qs.processing => nonce(qs) = nonce(ps)
      ]_vars

C14_Witness ==
    /\ call.hook = "received"
    /\ Len(events) = 1
    /\ events[1].kind = "Pong"
    /\ IdleRecord(connected_session_ids, call.session)
    /\ Unwrap(connected_session_ids[call.session]).last_ping # Unwrap(call.now)

\* C15: the round-trip time of Event::Pong is never negative: it is the time
\* from the last_ping of the record to the clock read at acceptance, and
\* zero when that clock read is earlier than last_ping.
C15_RoundTripTime ==
    [][ \A s \in Sessions :
          /\ EntersReceived(s, "Pong")
          /\ events' # <<>>
          /\ events'[1].kind = "Pong"
          =>
            LET sent == Unwrap(connected_session_ids[s]).last_ping
                now == Unwrap(call'.now)
                rtt == Unwrap(events'[1].rtt)
                later == now[1] > sent[1] \/ (now[1] = sent[1] /\ now[2] >= sent[2])
            IN  /\ rtt[1] > 0 \/ (rtt[1] = 0 /\ rtt[2] >= 0)
                /\ later => rtt = << now[1] - sent[1], now[2] - sent[2] >>
                /\ ~later => rtt = << 0, 0 >>
      ]_vars

C15_Witness ==
    /\ call.hook = "received"
    /\ Len(events) = 1
    /\ events[1].kind = "Pong"
    /\ events[1].rtt = Some(<< 0, 0 >>)
    /\ ~TimeGE(Unwrap(call.now),
               Unwrap(connected_session_ids[call.session]).last_ping)

\* ------------------------------------------------------------- liveness
\* The send-ping timer registered by init() fires.
send_ping_tick ==
    \E now \in Times :
        \E hit \in Orders(send_ping_peers(connected_session_ids)) :
            Ready /\ notify_send_ping(now, hit)

\* The remote peer of session s runs the same handler: it answers the Ping
\* it was sent with a Pong that carries the nonce of that Ping.
peer_answers(s) ==
    /\ Ready
    /\ IsSome(connected_session_ids[s])
    /\ Unwrap(connected_session_ids[s]).processing
    /\ received(s, build_pong(nonce(Unwrap(connected_session_ids[s]))))

\* The steps of a run in which sessions come and go, the send-ping timer
\* fires, the peers answer and the consumer drains the sink.
LiveNext ==
    \/ \E s \in Sessions : \E pubkey \in RemotePubkeys(s) : connected(s, pubkey)
    \/ \E s \in Sessions : disconnected(s)
    \/ \E s \in Sessions : peer_answers(s)
    \/ send_ping_tick
    \/ hook_return
    \/ sink_recv

\* Every hook returns, the send-ping timer keeps firing whenever the host is
\* free to run it, and every peer keeps answering.
LiveSpec ==
    /\ Init
    /\ [][LiveNext]_vars
    /\ WF_vars(hook_return)
    /\ SF_vars(send_ping_tick)
    /\ \A s \in Sessions : SF_vars(peer_answers(s))

PongEmitted(s) ==
    /\ call.hook = "received"
    /\ call.session = s
    /\ events # <<>>
    /\ events[1].kind = "Pong"

Challenged(s) ==
    /\ call.hook = "notify"
    /\ call.token = Some(SEND_PING_TOKEN)
    /\ \E i \in DOMAIN host_calls : s \in Range(host_calls[i].targets)

\* C16: when the send-ping timer keeps firing and the peer answers every
\* Ping with a Pong of the same nonce, no session stays AwaitingPong for
\* ever; a record stops being AwaitingPong while it stays connected only in
\* the received() that emits its Event::Pong, and a session that does not
\* keep being disconnected is challenged again and again and its Event::Pong
\* is emitted again and again (unless the handler has panicked).
C16_ChallengedAndAnsweredForEver ==
    /\ \A s \in Sessions :
          []<>( ~Awaiting(connected_session_ids, s) \/ panicked )
    /\ \A s \in Sessions :
          []<>( Challenged(s) \/ ~IsSome(connected_session_ids[s]) \/ panicked )
    /\ \A s \in Sessions :
          []<>( PongEmitted(s) \/ ~IsSome(connected_session_ids[s]) \/ panicked )
    /\ [][ \A s \in Sessions :
             Awaiting(connected_session_ids, s) /\ IdleRecord(connected_session_ids', s)
             => PongEmitted(s)' /\ call = Idle
         ]_vars

C16_Witness ==
    \E s \in Sessions :
        /\ PongEmitted(s)
        /\ events[1].ok
        /\ IdleRecord(connected_session_ids, s)
        /\ call.data = Some(build_pong(nonce(Unwrap(connected_session_ids[s]))))
        /\ outstanding[s] = 0

\* C19: the record of an AwaitingPong session changes only in the received()
\* of a Pong that carries its nonce, which makes it idle and emits its
\* Event::Pong, or in its disconnected(), which removes it; every other step
\* leaves its flag, its last_ping and its count of outstanding Pings alone
\* and broadcasts no Ping to it; and a Pong that carries its nonce is
\* accepted in whatever state the session is reached AwaitingPong.
C19_AwaitingUntilPongOrDisconnect ==
    [][ \A s \in Sessions :
          Awaiting(connected_session_ids, s) =>
            LET ps == Unwrap(connected_session_ids[s])
                matching ==
                    /\ EntersReceived(s, "Pong")
                    /\ payload_nonce(Unwrap(call'.data)) = nonce(ps)
                leaves ==
                    /\ Enters("disconnected")
                    /\ call'.session = s
            IN  /\ matching =>
                      /\ IdleRecord(connected_session_ids', s)
                      /\ Len(events') = 1
                      /\ IsEvent(events'[1], "Pong", s, ps.peer_id, events'[1].rtt)
                      /\ outstanding'[s] = outstanding[s] - 1
                /\ leaves => ~IsSome(connected_session_ids'[s])
                /\ ~matching /\ ~leaves =>
                      /\ connected_session_ids'[s] = connected_session_ids[s]
                      /\ outstanding'[s] = outstanding[s]
                      /\ \A i \in DOMAIN host_calls' :
                            host_calls'[i].op = "filter_broadcast" =>
                                s \notin Range(host_calls'[i].targets)
                      /\ \A i \in DOMAIN events' :
                            events'[i].kind = "Pong" => events'[i].session # s
      ]_vars

\* A Pong with another nonce was rejected and the record is still AwaitingPong.
C19_Witness ==
    /\ call.hook = "received"
    /\ payload_type(Unwrap(call.data)) = "Pong"
    /\ Awaiting(connected_session_ids, call.session)
    /\ payload_nonce(Unwrap(call.data)) #
          nonce(Unwrap(connected_session_ids[call.session]))
    /\ Len(events) = 1
    /\ events[1].kind = "UnexpectedError"
    /\ outstanding[call.session] = 1

\* C20: within a session lifetime the Event::Pong emitted for a session
\* never outnumber the Ping broadcasts that included it, and a Pong received
\* by an idle record, such as a second Pong with the nonce of the one that
\* was just accepted, is answered with UnexpectedError and changes nothing.
C20_AnsweredAtMostOnce ==
    /\ [] \A s \in Sessions : outstanding[s] >= 0
    /\ [][ \A s \in Sessions :
             /\ EntersReceived(s, "Pong") /\ IdleRecord(connected_session_ids, s) =>
                   /\ Len(events') = 1
                   /\ events'[1].kind = "UnexpectedError"
                   /\ connected_session_ids' = connected_session_ids
                   /\ outstanding' = outstanding
             /\ Enters("received") /\ events' # <<>> /\ events'[1].kind = "Pong" =>
                   /\ call'.session = s => outstanding[s] = 1 /\ outstanding'[s] = 0
         ]_vars

\* A Pong with the nonce the idle record would expect was rejected.
C20_Witness ==
    /\ call.hook = "received"
    /\ payload_type(Unwrap(call.data)) = "Pong"
    /\ IdleRecord(connected_session_ids, call.session)
    /\ payload_nonce(Unwrap(call.data)) =
          nonce(Unwrap(connected_session_ids[call.session]))
    /\ Len(events) = 1
    /\ events[1].kind = "UnexpectedError"
    /\ outstanding[call.session] = 0

\* --------------------------------------------------------------- dialing
\* The step is the end of a dial of an address with peer id id.
DialEnds(id) == service'.dialing[id] = service.dialing[id] - 1

SecondsMod32(t) ==
    IF t[1] < 0 \/ (t[1] = 0 /\ t[2] < 0) THEN 0 ELSE t[2] \div TicksPerSec

SameSecond(a, b) ==
    /\ a[1] = b[1]
    /\ a[2] >= 0
    /\ b[2] >= 0
    /\ a[2] \div TicksPerSec = b[2] \div TicksPerSec

\* C18: the nonce a record expects is the number of whole seconds from the
\* epoch to its last_ping modulo 2^32, and 0 before the epoch, whatever its
\* other fields; records stamped in the same second, or 2^32 seconds apart,
\* expect the same nonce; a send-ping tick broadcasts that nonce of its clock
\* read, and a Pong is accepted by an AwaitingPong record exactly when it
\* carries that nonce of the record's last_ping.
C18_NonceOfLastPing ==
    /\ [] \A s \in Sessions :
            IsSome(connected_session_ids[s]) =>
              LET ps == Unwrap(connected_session_ids[s])
              IN  /\ nonce(ps) = SecondsMod32(ps.last_ping)
                  /\ nonce([ ps EXCEPT !.processing = ~ps.processing ]) = nonce(ps)
                  /\ \A r \in Sessions :
                        IsSome(connected_session_ids[r]) =>
                          LET qs == Unwrap(connected_session_ids[r])
                          IN  /\ SameSecond(ps.last_ping, qs.last_ping)
                                    => nonce(ps) = nonce(qs)
                              /\ ps.last_ping[2] = qs.last_ping[2]
                                    /\ ps.last_ping[2] >= 0
                                    => nonce(ps) = nonce(qs)
    /\ [][ /\ EntersNotify(SEND_PING_TOKEN) =>
               \A i \in DOMAIN host_calls' :
                   host_calls'[i].data =
                       Some(build_ping(SecondsMod32(Unwrap(call'.now))))
           /\ \A s \in Sessions :
                 EntersReceived(s, "Pong") /\ Awaiting(connected_session_ids, s) =>
                    ( events'[1].kind = "Pong" <=>
                        payload_nonce(Unwrap(call'.data)) =
                            SecondsMod32(Unwrap(connected_session_ids[s]).last_ping) )
         ]_vars

\* Two AwaitingPong records stamped MaxWrap times 2^32 seconds apart, the later one by the
\* send-ping tick that is running, which broadcast the nonce of the earlier.
C18_Witness ==
    \E s, r \in Sessions :
        /\ call.hook = "notify"
        /\ call.token = Some(SEND_PING_TOKEN)
        /\ Awaiting(connected_session_ids, s)
        /\ Awaiting(connected_session_ids, r)
        /\ Unwrap(connected_session_ids[r]).last_ping = Unwrap(call.now)
        /\ Unwrap(call.now)[1] = MaxWrap
        /\ Unwrap(connected_session_ids[s]).last_ping =
              << 0, Unwrap(call.now)[2] >>
        /\ host_calls # <<>>
        /\ host_calls[1].data =
              Some(build_ping(nonce(Unwrap(connected_session_ids[s]))))

====
